---- MODULE Spec2Model ----
(***************************************************************************)
(* A model of the Lab 4 teaching material: the two notebooks               *)
(*   src/Lab 4/04-02 - Libraries.ipynb   (NumPy/Pandas/Matplotlib, OLS by  *)
(*                                        matrix formula, Monte Carlo)     *)
(*   src/Lab 4/04-03 - ML.ipynb          (LASSO vs Random Forest)          *)
(* run as Jupyter runs them: one kernel, one namespace, code cells in      *)
(* document order, and the Stata do-files                                  *)
(*   src/Stata/lab4_task1.do, src/Stata/lab4_task2.do                      *)
(* (leave-one-out and 4-fold out-of-sample prediction).  Real numbers are  *)
(* exact rationals (numerator(s) over a common denominator); a matrix is a *)
(* sequence of rows.                                                       *)
(***************************************************************************)
EXTENDS Integers, Sequences, FiniteSets, TLC

VARIABLES
    nb,          \* which notebook this kernel runs: "Libraries" or "ML"
    mode,        \* "run_all" (stops at the first error) or "step" (cell by cell)
    pc,          \* number of the next code cell to run (1-based, document order)
    halted,      \* a run-all run was stopped by an error
    errors,      \* the code cells that raised
    ns,          \* the kernel namespace: the names bound so far
    trace,       \* the tutorial stages completed so far, in order
    np_random,   \* state of NumPy's global random generator
    \* ---- values in the Libraries notebook's namespace
    data, data_clean, x, X, y, N, beta_ols,
    \* ---- the Monte Carlo cell of the Libraries notebook
    mc,
    \* ---- values in the ML notebook's namespace
    ml,
    \* ---- a function of the notebooks called on its own: the call and its result
    call,
    \* ---- the Stata session running a do-file
    stata

kernelVars == <<nb, mode, pc, halted, errors, ns, trace, np_random>>
libVars    == <<data, data_clean, x, X, y, N, beta_ols>>
vars       == <<nb, mode, pc, halted, errors, ns, trace, np_random,
                data, data_clean, x, X, y, N, beta_ols, mc, ml, call, stata>>

-----------------------------------------------------------------------------
(* Bounds of the model *)

MaxSeed  == 2    \* the generator's state at kernel start is one of 0..MaxSeed
NDraws   == 3    \* the samples one call of generate_data can draw
MaxWage  == 2    \* hourly wages in the data files are 1..MaxWage

-----------------------------------------------------------------------------
(* Linear algebra: numpy's @ / dot, .T, np.linalg.inv *)

\* A function constructor is evaluated element by element, on demand and again
\* on every use; Fixed(s) is the same sequence with its elements evaluated once.
Fixed(s) == s \o << >>

\* f[lo] + ... + f[hi], by halves
RECURSIVE SumRange(_, _, _)
SumRange(f, lo, hi) ==
    IF lo > hi THEN 0
    ELSE IF lo = hi THEN f[lo]
    ELSE LET mid == (lo + hi) \div 2
         IN  SumRange(f, lo, mid) + SumRange(f, mid + 1, hi)

SumTo(f, n) == SumRange(f, 1, n)

\* u @ v for two vectors
Dot(u, v) == SumTo([i \in 1..Len(u) |-> u[i] * v[i]], Len(u))

NCols(M) == IF Len(M) = 0 THEN 0 ELSE Len(M[1])

Column(M, j) == Fixed([i \in 1..Len(M) |-> M[i][j]])

\* M.T
Transpose(M) == Fixed([j \in 1..NCols(M) |-> Column(M, j)])

\* A @ B for two matrices
MatMul(A, B) ==
    LET Bt == Transpose(B)
    IN  Fixed([i \in 1..Len(A) |-> Fixed([j \in 1..Len(Bt) |-> Dot(A[i], Bt[j])])])

\* A @ v for a matrix and a vector
MatVec(A, v) == Fixed([i \in 1..Len(A) |-> Dot(A[i], v)])

DropAt(s, k) == [i \in 1..(Len(s) - 1) |-> IF i < k THEN s[i] ELSE s[i + 1]]

Minor(M, r, c) == [i \in 1..(Len(M) - 1) |-> DropAt(DropAt(M, r)[i], c)]

RECURSIVE Det(_)
Det(M) ==
    IF Len(M) = 0 THEN 1
    ELSE IF Len(M) = 1 THEN M[1][1]
    ELSE SumTo([j \in 1..Len(M) |->
                  (IF j % 2 = 1 THEN 1 ELSE -1) * M[1][j] * Det(Minor(M, 1, j))],
               Len(M))

Adjugate(M) ==
    Fixed([i \in 1..Len(M) |-> Fixed([j \in 1..Len(M) |->
        (IF (i + j) % 2 = 0 THEN 1 ELSE -1) * Det(Minor(M, j, i))])])

\* np.linalg.inv(M): the inverse as adjugate over determinant; den = 0 stands
\* for the LinAlgError numpy raises on a singular matrix.
LinAlgError == [num |-> <<>>, den |-> 0]

inv(M) ==
    LET d == Det(M)
    IN  IF d = 0 THEN LinAlgError ELSE [num |-> Adjugate(M), den |-> d]

\* products of a rational matrix (num/den) with an integer matrix or vector
RatMatMul(R, B) == [num |-> MatMul(R.num, B), den |-> R.den]
RatMatVec(R, v) == [num |-> MatVec(R.num, v), den |-> R.den]

ones(n) == Fixed([i \in 1..n |-> 1])

\* the columns of B, then of A
concatenate_reversed(A, B) == Fixed([i \in 1..Len(A) |-> B[i] \o A[i]])

\* np.concatenate((A, B), axis=1) / np.column_stack: the columns of A, then of B
concatenate(A, B) == Fixed([i \in 1..Len(A) |-> A[i] \o B[i]])

AsColumn(v) == Fixed([i \in 1..Len(v) |-> <<v[i]>>])

-----------------------------------------------------------------------------
(* The Jupyter kernel: a code cell either completes, binding its names, or   *)
(* raises.  A cell that does not parse raises SyntaxError before any of it   *)
(* runs; a cell that reads an unbound name raises NameError.                 *)

LibCells ==
  <<
    [first |-> 28, last |-> 37, stage |-> "import", parses |-> TRUE,
     reads |-> {},
     binds |-> {"np", "plt", "pd", "sys"}],
    [first |-> 61, last |-> 63, stage |-> "numpy", parses |-> TRUE,
     reads |-> {"np"},
     binds |-> {"python_list", "numpy_array"}],
    [first |-> 81, last |-> 83, stage |-> "numpy", parses |-> TRUE,
     reads |-> {"numpy_array"},
     binds |-> {}],
    [first |-> 101, last |-> 101, stage |-> "numpy", parses |-> TRUE,
     reads |-> {"numpy_array"},
     binds |-> {}],
    [first |-> 117, last |-> 120, stage |-> "numpy", parses |-> TRUE,
     reads |-> {"np"},
     binds |-> {"list_of_lists", "numpy_array_2d"}],
    [first |-> 136, last |-> 136, stage |-> "numpy", parses |-> TRUE,
     reads |-> {"numpy_array_2d"},
     binds |-> {}],
    [first |-> 152, last |-> 153, stage |-> "numpy", parses |-> TRUE,
     reads |-> {"numpy_array_2d"},
     binds |-> {}],
    [first |-> 171, last |-> 178, stage |-> "numpy", parses |-> TRUE,
     reads |-> {"np"},
     binds |-> {"x"}],
    [first |-> 194, last |-> 202, stage |-> "numpy", parses |-> TRUE,
     reads |-> {"np", "x"},
     binds |-> {"y"}],
    [first |-> 222, last |-> 223, stage |-> "numpy", parses |-> TRUE,
     reads |-> {"np"},
     binds |-> {"x"}],
    [first |-> 232, last |-> 232, stage |-> "numpy", parses |-> TRUE,
     reads |-> {"x", "np"},
     binds |-> {}],
    [first |-> 263, last |-> 264, stage |-> "numpy", parses |-> FALSE,
     reads |-> {},
     binds |-> {}],
    [first |-> 273, last |-> 273, stage |-> "numpy", parses |-> TRUE,
     reads |-> {"x", "np"},
     binds |-> {}],
    [first |-> 282, last |-> 282, stage |-> "numpy", parses |-> TRUE,
     reads |-> {"x", "np"},
     binds |-> {}],
    [first |-> 291, last |-> 291, stage |-> "numpy", parses |-> TRUE,
     reads |-> {"x", "np"},
     binds |-> {}],
    [first |-> 300, last |-> 301, stage |-> "numpy", parses |-> TRUE,
     reads |-> {"x", "np"},
     binds |-> {}],
    [first |-> 322, last |-> 325, stage |-> "numpy", parses |-> TRUE,
     reads |-> {"np"},
     binds |-> {"x", "y"}],
    [first |-> 341, last |-> 341, stage |-> "numpy", parses |-> TRUE,
     reads |-> {"x", "y"},
     binds |-> {}],
    [first |-> 358, last |-> 359, stage |-> "numpy", parses |-> TRUE,
     reads |-> {"np"},
     binds |-> {"X"}],
    [first |-> 375, last |-> 375, stage |-> "numpy", parses |-> TRUE,
     reads |-> {"np"},
     binds |-> {}],
    [first |-> 384, last |-> 384, stage |-> "numpy", parses |-> TRUE,
     reads |-> {"np"},
     binds |-> {}],
    [first |-> 393, last |-> 393, stage |-> "numpy", parses |-> TRUE,
     reads |-> {"np"},
     binds |-> {}],
    [first |-> 411, last |-> 419, stage |-> "numpy", parses |-> TRUE,
     reads |-> {"np"},
     binds |-> {"x1", "x2"}],
    [first |-> 436, last |-> 440, stage |-> "numpy", parses |-> TRUE,
     reads |-> {"np"},
     binds |-> {"A"}],
    [first |-> 456, last |-> 460, stage |-> "numpy", parses |-> TRUE,
     reads |-> {"A", "np"},
     binds |-> {}],
    [first |-> 495, last |-> 495, stage |-> "load", parses |-> TRUE,
     reads |-> {"pd"},
     binds |-> {"data"}],
    [first |-> 511, last |-> 512, stage |-> "load", parses |-> TRUE,
     reads |-> {"data"},
     binds |-> {}],
    [first |-> 528, last |-> 528, stage |-> "load", parses |-> TRUE,
     reads |-> {"data"},
     binds |-> {}],
    [first |-> 546, last |-> 546, stage |-> "index", parses |-> TRUE,
     reads |-> {"data"},
     binds |-> {}],
    [first |-> 562, last |-> 562, stage |-> "index", parses |-> TRUE,
     reads |-> {"data"},
     binds |-> {}],
    [first |-> 584, last |-> 584, stage |-> "index", parses |-> TRUE,
     reads |-> {"data"},
     binds |-> {}],
    [first |-> 600, last |-> 600, stage |-> "index", parses |-> TRUE,
     reads |-> {"data"},
     binds |-> {}],
    [first |-> 616, last |-> 616, stage |-> "index", parses |-> TRUE,
     reads |-> {"data"},
     binds |-> {}],
    [first |-> 634, last |-> 635, stage |-> "newvar", parses |-> TRUE,
     reads |-> {"data"},
     binds |-> {}],
    [first |-> 651, last |-> 652, stage |-> "newvar", parses |-> TRUE,
     reads |-> {"np"},
     binds |-> {"data"}],
    [first |-> 682, last |-> 701, stage |-> "ols", parses |-> TRUE,
     reads |-> {"data", "np"},
     binds |-> {"data_clean", "X", "N", "_", "y", "XtX_inv", "Xty", "beta_ols", "i"}],
    [first |-> 736, last |-> 737, stage |-> "plot", parses |-> TRUE,
     reads |-> {},
     binds |-> {}],
    [first |-> 753, last |-> 761, stage |-> "plot", parses |-> TRUE,
     reads |-> {"plt", "np"},
     binds |-> {"fig", "ax", "x", "y"}],
    [first |-> 784, last |-> 787, stage |-> "plot", parses |-> TRUE,
     reads |-> {"plt"},
     binds |-> {"fig", "ax"}],
    [first |-> 803, last |-> 816, stage |-> "plot", parses |-> TRUE,
     reads |-> {"plt"},
     binds |-> {"fig", "axes", "colours", "ax", "c"}],
    [first |-> 835, last |-> 848, stage |-> "plot", parses |-> TRUE,
     reads |-> {"plt"},
     binds |-> {"fig", "ax", "fruits", "counts", "bar_labels", "bar_colors"}],
    [first |-> 864, last |-> 888, stage |-> "plot", parses |-> TRUE,
     reads |-> {"np", "plt"},
     binds |-> {"N", "GDP", "unemployment_rate", "colours", "area", "fig", "ax", "highlight_point"}],
    [first |-> 897, last |-> 919, stage |-> "plot", parses |-> TRUE,
     reads |-> {"np", "plt"},
     binds |-> {"income_data", "fig", "ax", "muincome"}],
    [first |-> 1015, last |-> 1030, stage |-> "montecarlo", parses |-> TRUE,
     reads |-> {},
     binds |-> {"generate_data"}],
    [first |-> 1046, last |-> 1046, stage |-> "montecarlo", parses |-> TRUE,
     reads |-> {"generate_data", "np", "pd"},
     binds |-> {}],
    [first |-> 1062, last |-> 1077, stage |-> "montecarlo", parses |-> TRUE,
     reads |-> {},
     binds |-> {"ols"}],
    [first |-> 1095, last |-> 1135, stage |-> "montecarlo", parses |-> TRUE,
     reads |-> {"plt", "generate_data", "ols", "np", "pd"},
     binds |-> {"sample_sizes", "n_simulations", "results", "fig", "axs", "idx", "N", "beta_0_estimates", "beta_1_estimates", "_", "df", "beta_hat"}]
  >>

Outcome(cell, names) ==
    IF ~cell.parses THEN "SyntaxError"
    ELSE IF ~(cell.reads \subseteq names) THEN "NameError"
    ELSE "ok"

\* the stages completed so far, with one more cell of stage s completed
Completed(t, s) == IF Len(t) > 0 /\ t[Len(t)] = s THEN t ELSE Append(t, s)

\* A value the model does not follow (an array of floats, a figure, ...).
NotModelled == <<>>

-----------------------------------------------------------------------------
(* The data file behind pd.read_stata(".../mroz.dta"): one row per woman.    *)
(* Money and logs are in tenths.  lwage is the file's own column, the        *)
(* natural logarithm of wage; wage and lwage are missing for a woman who     *)
(* does not work (na lists the missing columns).                             *)

LnTenths(w) ==
    CASE w = 1 -> 0 [] w = 2 -> 7 [] w = 3 -> 11 [] w = 4 -> 14 [] OTHER -> 16

MrozRow(educ, exper, w, kidslt6, kidsge6, working) ==
    [educ |-> educ, exper |-> exper, expersq |-> exper * exper,
     wage |-> 10 * w, lwage |-> LnTenths(w),
     kidslt6 |-> kidslt6, kidsge6 |-> kidsge6,
     na |-> IF working THEN {} ELSE {"wage", "lwage"}]

\* four mothers whose regressors are linearly independent, with wages w[1..4]
Mothers(w) ==
    << MrozRow(0, 0, w[1], 1, 0, TRUE), MrozRow(1, 0, w[2], 0, 2, TRUE),
       MrozRow(0, 1, w[3], 1, 1, TRUE), MrozRow(0, 2, w[4], 0, 1, TRUE) >>

OtherRows(kind, w) ==
    CASE kind = "childless"  -> << MrozRow(2, 1, w[1], 0, 0, TRUE) >>
      [] kind = "notworking" -> << MrozRow(1, 2, w[2], 1, 0, FALSE) >>
      [] kind = "fifth"      -> << MrozRow(1, 1, w[3], 0, 1, TRUE) >>
      [] kind = "mixed"      -> << MrozRow(2, 0, w[4], 0, 0, TRUE),
                                   MrozRow(1, 1, w[1], 2, 0, TRUE),
                                   MrozRow(2, 2, w[2], 0, 3, FALSE) >>
      [] OTHER               -> << >>

MrozFiles ==
    { Mothers(w) \o OtherRows(kind, w) :
        w \in [1..4 -> 1..MaxWage],
        kind \in {"none", "childless", "notworking", "fifth", "mixed"} }
    \cup
    \* a file too small to identify four coefficients
    { SubSeq(Mothers(w), 1, 3) : w \in [1..4 -> 1..MaxWage] }

\* the file the Libraries notebook run downloads
MrozFile == Mothers(<<1, 2, 2, 1>>) \o OtherRows("mixed", <<1, 2, 2, 1>>)

\* data.query("kidslt6 >= 1 or  kidsge6 >= 1").dropna(): the rows that satisfy
\* the condition and miss no column
HasKids(r) == r.kidslt6 >= 1 \/ r.kidsge6 >= 1
NoMissing(r) == r.na = {}

query_dropna(df) == SelectSeq(SelectSeq(df, HasKids), NoMissing)

\* df[cols].to_numpy(): one row of numbers per row of the frame
to_numpy3(df, c1, c2, c3) == [i \in 1..Len(df) |-> << df[i][c1], df[i][c2], df[i][c3] >>]
to_numpy1(df, c) == [i \in 1..Len(df) |-> df[i][c]]

\* The regressor matrix of the wage cell: a column of ones, then educ, exper, expersq
WageX(clean) ==
    concatenate(AsColumn(ones(Len(clean))), to_numpy3(clean, "educ", "exper", "expersq"))

\* The dependent vector of the wage cell
WageY(clean) == to_numpy1(clean, "wage")

\* beta_ols = XtX_inv @ Xty
WageOLS(Xm, yv) == RatMatVec(inv(MatMul(Transpose(Xm), Xm)), MatVec(Transpose(Xm), yv))

-----------------------------------------------------------------------------
(* generate_data and ols of the Libraries notebook *)

\* The d-th sample np.random.normal can return for a request of n numbers.
\* Normal draws are distinct with probability one, so no sample is constant.
NormalX(n, d) == Fixed([i \in 1..n |-> ((i + d + (i \div (d + 1))) % 3) - 1])
NormalU(n, d) == Fixed([i \in 1..n |-> ((i * d + (i \div 3)) % 3) - 1])

\* a generate_data that leaves the error term out of y
generate_data_without_noise(n, d) ==
    LET Xs == NormalX(n, d)
    IN  [X |-> Xs, y |-> Fixed([i \in 1..n |-> 3 + 2 * Xs[i]])]

generate_data(n, d) ==
    LET Xs == NormalX(n, d)
        u  == NormalU(n, d)
    IN  [X |-> Xs, y |-> Fixed([i \in 1..n |-> 3 + 2 * Xs[i] + u[i]])]

ols(df) ==
    LET Xm == concatenate(AsColumn(ones(Len(df.X))), AsColumn(df.X))
        yv == df.y
    IN  RatMatVec(RatMatMul(inv(MatMul(Transpose(Xm), Xm)), Transpose(Xm)), yv)

sample_sizes == <<5, 30, 100, 500>>
n_simulations == 1000

\* generate_data and ols are pure, and the loop calls them thousands of times
\* on the same few samples: their values, tabulated once.  Samples[k][d] is
\* generate_data(sample_sizes[k]) for draw d, Estimates[k][d] is ols of it.
Samples ==
    Fixed([k \in 1..Len(sample_sizes) |->
              Fixed([d \in 1..NDraws |-> generate_data(sample_sizes[k], d)])])

Estimates ==
    Fixed([k \in 1..Len(sample_sizes) |->
              Fixed([d \in 1..NDraws |-> ols(Samples[k][d])])])

MLCells ==
  <<
    [first |-> 29, last |-> 39, stage |-> "import", parses |-> TRUE,
     reads |-> {},
     binds |-> {"np", "pd", "plt", "sk", "sys"}],
    [first |-> 48, last |-> 56, stage |-> "load", parses |-> TRUE,
     reads |-> {"pd"},
     binds |-> {"url", "data"}],
    [first |-> 76, last |-> 82, stage |-> "select", parses |-> TRUE,
     reads |-> {"data"},
     binds |-> {"selected_features", "X", "y"}],
    [first |-> 98, last |-> 99, stage |-> "split", parses |-> TRUE,
     reads |-> {"X", "y"},
     binds |-> {"train_test_split", "X_train", "X_test", "y_train", "y_test"}],
    [first |-> 121, last |-> 137, stage |-> "preprocess", parses |-> TRUE,
     reads |-> {},
     binds |-> {"StandardScaler", "OneHotEncoder", "PolynomialFeatures", "ColumnTransformer", "Pipeline", "numerical_pipeline", "preprocessor"}],
    [first |-> 166, last |-> 175, stage |-> "pipelines", parses |-> TRUE,
     reads |-> {"Pipeline", "preprocessor"},
     binds |-> {"Lasso", "RandomForestRegressor", "cross_val_score", "GridSearchCV", "pipeline_lasso", "pipeline_rf"}],
    [first |-> 199, last |-> 201, stage |-> "grid", parses |-> TRUE,
     reads |-> {},
     binds |-> {"param_grid_lasso", "param_grid_rf"}],
    [first |-> 217, last |-> 230, stage |-> "search", parses |-> TRUE,
     reads |-> {"GridSearchCV", "pipeline_lasso", "param_grid_lasso", "pipeline_rf", "param_grid_rf", "X", "y"},
     binds |-> {"grid_search_lasso", "grid_search_rf", "best_params_lasso", "best_params_rf"}],
    [first |-> 258, last |-> 260, stage |-> "set_params", parses |-> TRUE,
     reads |-> {"pipeline_lasso", "best_params_lasso", "pipeline_rf", "best_params_rf"},
     binds |-> {}],
    [first |-> 269, last |-> 271, stage |-> "fit", parses |-> TRUE,
     reads |-> {"X_train", "y_train", "pipeline_lasso", "pipeline_rf"},
     binds |-> {"pipeline_lasso.fitted", "pipeline_rf.fitted", "preprocessor.fitted"}],
    [first |-> 288, last |-> 339, stage |-> "compare", parses |-> TRUE,
     reads |-> {"X_train", "pipeline_lasso", "X_test", "pipeline_rf", "y_train", "y_test", "plt", "np", "pipeline_lasso.fitted", "pipeline_rf.fitted"},
     binds |-> {"mean_squared_error", "y_pred_train_lasso", "y_pred_test_lasso", "y_pred_train_rf", "y_pred_test_rf", "mse_train_lasso", "mse_test_lasso", "mse_train_rf", "mse_test_rf", "fig", "ax"}],
    [first |-> 371, last |-> 391, stage |-> "interpret", parses |-> TRUE,
     reads |-> {"preprocessor", "np", "pipeline_rf", "preprocessor.fitted", "pipeline_rf.fitted"},
     binds |-> {"num_original_features_names", "poly_features_names", "cat_features_names", "final_feature_names", "feature_importances", "feature_importance_mapping", "sorted_features", "feature", "importance"}],
    [first |-> 400, last |-> 410, stage |-> "interpret", parses |-> TRUE,
     reads |-> {"pipeline_lasso", "final_feature_names", "np", "pipeline_lasso.fitted"},
     binds |-> {"coefs", "coef_mapping", "sorted_features", "feature"}],
    [first |-> 435, last |-> 437, stage |-> "ridge", parses |-> TRUE,
     reads |-> {},
     binds |-> {"Ridge"}]
  >>


-----------------------------------------------------------------------------
(* The ML notebook: scikit-learn as the notebook uses it.  A frame or a      *)
(* series is known by its row labels (pandas keeps them through a split).    *)

MaxRows     == 11   \* the data file has n_splits..MaxRows rows
NLearners   == 4    \* the behaviours the fitted learners can show on the folds
MaxRuns     == 2    \* times the notebook is run from a fresh kernel

LoadKielmcCell == 2
SelectCell     == 3
SplitCell      == 4
PipelineCell   == 6
SearchCell     == 8
SetParamsCell  == 9
FitCell        == 10
CompareCell    == 11

MLSpecialCells ==
    {LoadKielmcCell, SelectCell, SplitCell, PipelineCell, SearchCell,
     SetParamsCell, FitCell, CompareCell}

selected_features == <<"year", "age", "rooms", "area", "land", "baths", "dist">>

\* train_test_split(X, y, test_size=0.2, random_state=123)
test_size_percent == 20
random_state      == 123

\* GridSearchCV(..., cv=5, scoring='neg_mean_squared_error')
n_splits == 5

\* Lasso alphas in thousandths; Lasso() itself has alpha = 1.0
param_grid_lasso == <<1, 10, 100, 1000, 10000>>
DefaultAlpha     == 1000
\* Random forest depths; None (no limit) is written 0, and is the default
param_grid_rf    == <<0, 10, 20, 30>>
DefaultMaxDepth  == 0

Range(s) == { s[i] : i \in 1..Len(s) }

\* pandas' RangeIndex of a frame of n rows
RangeIndex(n) == [i \in 1..n |-> i - 1]

\* The generator behind RandomState: a linear congruential step
NextRandom(s) == (75 * s + 74) % 65537

\* RandomState(seed): a generator of its own, started from the seed
RandomState(seed) == seed % 65537

\* check_random_state as it treats random_state=None: the global generator
check_random_state_of_None(seed, g) == g

\* sklearn's check_random_state: an int seeds a new generator; the global
\* generator g is used only when random_state is None
check_random_state(seed, g) == RandomState(seed)

Swap(s, i, j) == [s EXCEPT ![i] = s[j], ![j] = s[i]]

\* rng.permutation(n): a Fisher-Yates shuffle of 0..n-1 from the last place down
RECURSIVE Shuffle(_, _, _)
Shuffle(arr, i, s) ==
    IF i <= 1 THEN arr
    ELSE LET s1 == NextRandom(s)
             j  == (s1 % i) + 1
         IN  Shuffle(Swap(arr, i, j), i - 1, s1)

permutation(s, n) == Shuffle(RangeIndex(n), n, s)

\* frame.iloc[positions]: the rows at 0-based positions, in that order
iloc(frame, positions) ==
    [frame EXCEPT !.index = [i \in 1..Len(positions) |-> frame.index[positions[i] + 1]]]

\* ShuffleSplit with the size of the test set rounded down
ShuffleSplitRoundedDown(n, g) ==
    LET n_test == (test_size_percent * n) \div 100
        perm   == permutation(RandomState(random_state), n)
    IN  [test |-> SubSeq(perm, 1, n_test), train |-> SubSeq(perm, n_test + 1, n)]

\* the positions ShuffleSplit hands out: n_test = ceil(test_size * n) rows for
\* the test set from the front of the permutation, the rest for training
ShuffleSplit(n, g) ==
    LET n_test == (test_size_percent * n + 99) \div 100
        perm   == permutation(check_random_state(random_state, g), n)
    IN  [test |-> SubSeq(perm, 1, n_test), train |-> SubSeq(perm, n_test + 1, n)]

\* X_train, X_test, y_train, y_test = train_test_split(X, y, ...): one pair of
\* position lists, applied to every array passed in
train_test_split(Xf, yf, g) ==
    LET cv == ShuffleSplit(Len(Xf.index), g)
    IN  [X_train |-> iloc(Xf, cv.train), X_test |-> iloc(Xf, cv.test),
         y_train |-> iloc(yf, cv.train), y_test |-> iloc(yf, cv.test)]

\* KFold(n_splits) without shuffling: consecutive blocks of positions, the
\* first n % n_splits blocks one longer
KFoldTest(n, k) ==
    LET base  == n \div n_splits
        extra == n % n_splits
        start == (k - 1) * base + (IF k - 1 < extra THEN k - 1 ELSE extra)
        size  == base + (IF k <= extra THEN 1 ELSE 0)
    IN  [i \in 1..size |-> start + i - 1]

KFoldTrain(n, k) ==
    LET test == Range(KFoldTest(n, k))
    IN  SelectSeq(RangeIndex(n), LAMBDA p : p \notin test)

\* The mean squared error a clone fitted with candidate c shows on fold k, for
\* learner behaviour b: whatever the library's learner makes of the rows.
FoldMSE(b, c, k) == (b * c + k * (b + c) + c * c) % 4

\* negated, as scoring='neg_mean_squared_error' reports it: greater is better
FoldScore(b, c, k) == 0 - FoldMSE(b, c, k)

\* cv_results_: per candidate and fold, the rows fitted on, the rows scored on
\* and the score
CrossValidate(Xf, grid, b) ==
    [c \in 1..Len(grid) |->
        [k \in 1..n_splits |->
            [train |-> Range(iloc(Xf, KFoldTrain(Len(Xf.index), k)).index),
             test  |-> Range(iloc(Xf, KFoldTest(Len(Xf.index), k)).index),
             score |-> FoldScore(b, c, k)]]]

\* n_splits times mutest_score: the folds weigh the same
TotalScore(cv, c) == SumTo([k \in 1..n_splits |-> cv[c][k].score], n_splits)

\* best_index_ taken as the candidate of the least score
BestIndexOfLeastScore(cv) ==
    CHOOSE c \in 1..Len(cv) :
        /\ \A o \in 1..Len(cv) : TotalScore(cv, o) >= TotalScore(cv, c)
        /\ \A o \in 1..(c - 1) : TotalScore(cv, o) > TotalScore(cv, c)

\* best_index_: the first candidate of rank 1, the greatest mean score
BestIndex(cv) ==
    CHOOSE c \in 1..Len(cv) :
        /\ \A o \in 1..Len(cv) : TotalScore(cv, o) <= TotalScore(cv, c)
        /\ \A o \in 1..(c - 1) : TotalScore(cv, o) < TotalScore(cv, c)

\* GridSearchCV(pipeline, grid, cv=5, ...).fit(X, y), with refit=True
GridSearchCV_fit(Xf, grid, b) ==
    LET cv == CrossValidate(Xf, grid, b)
    IN  [cv_results |-> cv,
         best_index |-> BestIndex(cv),
         best_params |-> grid[BestIndex(cv)],
         refit_rows |-> Range(Xf.index)]

NoFrame == [index |-> <<>>, columns |-> <<>>]
NoSplit == [X_train |-> NoFrame, X_test |-> NoFrame, y_train |-> NoFrame, y_test |-> NoFrame]
NoSearch == [cv_results |-> <<>>, best_index |-> 0, best_params |-> 0, refit_rows |-> {}]

\* a Pipeline(preprocessor, regressor): the regressor's hyperparameter, and
\* what the last fit saw
NewPipeline(param) == [param |-> param, fitted |-> FALSE, fit_param |-> 0, fit_rows |-> <<>>]

\* the namespace values of a fresh kernel
FreshML(file, runs, first, first_g) ==
    [kielmc |-> file, runs |-> runs, first_split |-> first, first_np_random |-> first_g,
     data |-> NoFrame, X |-> NoFrame, y |-> NoFrame, split |-> NoSplit,
     pipeline_lasso |-> NewPipeline(0), pipeline_rf |-> NewPipeline(0),
     grid_search_lasso |-> NoSearch, grid_search_rf |-> NoSearch,
     best_params_lasso |-> 0, best_params_rf |-> 0,
     fits |-> {}, log |-> <<>>, predictions |-> <<>>]

-----------------------------------------------------------------------------
(* Running the cells *)

LoadCell       == 26    \* data = pd.read_stata(...)
OLSCell        == 36    \* the wage equation by the matrix formula
MonteCarloCell == 47    \* the Monte Carlo loop

\* The notebooks with the wage-equation cell moved below the Matplotlib section
CellsPlotBeforeOLS ==
    IF nb = "Libraries"
    THEN [k \in 1..Len(LibCells) |->
            IF k < 36 \/ k > 43 THEN LibCells[k]
            ELSE IF k < 43 THEN LibCells[k + 1]
            ELSE LibCells[36]]
    ELSE MLCells

\* the code cells of the notebook the kernel is running, in document order
Cells == IF nb = "Libraries" THEN LibCells ELSE MLCells

\* the cell at pc raises: a run-all run stops there, a cell-by-cell run goes on
Raise ==
    /\ errors' = errors \cup {pc}
    /\ halted' = (mode = "run_all")
    /\ pc' = IF mode = "run_all" THEN pc ELSE pc + 1

\* the cell at pc completes in stage s, binding the names in b
Complete(s, b) ==
    /\ ns' = ns \cup b
    /\ trace' = Completed(trace, s)
    /\ pc' = pc + 1
    /\ UNCHANGED <<errors, halted>>

NoRational == [num |-> <<>>, den |-> 1]

\* no function has been called on its own; no do-file is running
NoCall == [fn |-> "none"]
NoStata == [dofile |-> "none"]

MCIdle ==
    [phase |-> "idle", idx |-> 0, sim |-> 0,
     beta_0_estimates |-> 0, beta_1_estimates |-> 0,     \* the lists' lengths
     df |-> [X |-> <<>>, y |-> <<>>], beta_hat |-> NoRational,
     results |-> <<>>,                                   \* N -> the lists' lengths
     iterations |-> 0, generate_data_calls |-> 0, ols_calls |-> 0]

\* Values the cells of the Libraries notebook give to x, y, X and N
LibX(k, old) ==
    CASE k = 8  -> <<1, 2, 3>>
      [] k = 10 -> [i \in 1..10 |-> i - 1]          \* np.linspace(0, 9, 10)
      [] k = 17 -> <<1, 2, 3>>
      [] k = 38 -> NotModelled                      \* np.linspace(0, 10, 1000)
      [] OTHER  -> old

LibY(k, old) ==
    CASE k = 9  -> <<4, 5, 6>>
      [] k = 17 -> <<4, 5, 6>>
      [] k = 38 -> NotModelled                      \* np.sin(x)
      [] OTHER  -> old

LibBigX(k, old) == IF k = 19 THEN << <<1, 2, 3>>, <<4, 5, 6>> >> ELSE old

LibN(k, old) == IF k = 42 THEN 50 ELSE old

\* np.random.seed(42) in the scatter-plot and histogram cells
LibSeed(k, old) == IF k \in {42, 43} THEN RandomState(42) ELSE old

\* Any cell whose values the model does not follow further
RunCell ==
    /\ ~halted
    /\ pc \in 1..Len(Cells)
    /\ nb = "Libraries" => pc \notin {LoadCell, OLSCell, MonteCarloCell}
    /\ nb = "ML" => pc \notin MLSpecialCells
    /\ IF Outcome(Cells[pc], ns) = "ok"
       THEN /\ Complete(Cells[pc].stage, Cells[pc].binds)
            /\ IF nb = "Libraries"
               THEN /\ x' = LibX(pc, x)
                    /\ y' = LibY(pc, y)
                    /\ X' = LibBigX(pc, X)
                    /\ N' = LibN(pc, N)
                    /\ np_random' = LibSeed(pc, np_random)
               ELSE UNCHANGED <<x, y, X, N, np_random>>
       ELSE /\ Raise
            /\ UNCHANGED <<ns, trace, x, y, X, N, np_random>>
    /\ UNCHANGED <<nb, call, stata, mode, data, data_clean, beta_ols, mc, ml>>

\* data = pd.read_stata("http://fmwww.bc.edu/ec-p/data/wooldridge/mroz.dta")
LoadMroz ==
    /\ nb = "Libraries" /\ ~halted /\ pc = LoadCell
    /\ IF Outcome(Cells[pc], ns) = "ok"
       THEN /\ Complete(Cells[pc].stage, Cells[pc].binds)
            /\ data' = MrozFile
       ELSE /\ Raise
            /\ UNCHANGED <<ns, trace, data>>
    /\ UNCHANGED <<nb, call, stata, mode, np_random, data_clean, x, X, y, N, beta_ols, mc, ml>>

\* The wage-equation cell.  np.linalg.inv raises on a singular X'X, after
\* data_clean, X, N and y have been bound.
WageCell ==
    /\ nb = "Libraries" /\ ~halted /\ pc = OLSCell
    /\ IF Outcome(Cells[pc], ns) = "ok"
       THEN LET clean == query_dropna(data)
                Xm    == WageX(clean)
                yv    == WageY(clean)
                b     == WageOLS(Xm, yv)
            IN  /\ data_clean' = clean
                /\ X' = Xm
                /\ N' = Len(Xm)
                /\ y' = yv
                /\ IF b.den = 0
                   THEN /\ Raise
                        /\ ns' = ns \cup {"data_clean", "X", "N", "_", "y"}
                        /\ UNCHANGED <<trace, beta_ols>>
                   ELSE /\ Complete(Cells[pc].stage, Cells[pc].binds)
                        /\ beta_ols' = b
       ELSE /\ Raise
            /\ UNCHANGED <<ns, trace, data_clean, X, N, y, beta_ols>>
    /\ UNCHANGED <<nb, call, stata, mode, np_random, data, x, mc, ml>>

\* The Monte Carlo cell up to the outer loop: sample_sizes, n_simulations,
\* results = {} and the figure
MonteCarloBegin ==
    /\ nb = "Libraries" /\ ~halted /\ pc = MonteCarloCell /\ mc.phase = "idle"
    /\ IF Outcome(Cells[pc], ns) = "ok"
       THEN /\ mc' = [mc EXCEPT !.phase = "outer", !.idx = 0, !.results = <<>>]
            /\ ns' = ns \cup {"sample_sizes", "n_simulations", "results", "fig", "axs"}
            /\ UNCHANGED <<pc, errors, halted>>
       ELSE /\ Raise
            /\ UNCHANGED <<ns, mc>>
    /\ UNCHANGED <<nb, call, stata, mode, trace, np_random, libVars, ml>>

\* The outer loop with the two lists created once, before it, and never emptied
MonteCarloNextSizeKeepingLists ==
    /\ nb = "Libraries" /\ ~halted /\ pc = MonteCarloCell /\ mc.phase = "outer"
    /\ mc.idx < Len(sample_sizes)
    /\ mc' = [mc EXCEPT !.phase = "inner", !.idx = @ + 1, !.sim = 0]
    /\ N' = sample_sizes[mc.idx + 1]
    /\ ns' = ns \cup {"idx", "N", "beta_0_estimates", "beta_1_estimates"}
    /\ UNCHANGED <<nb, call, stata, mode, pc, halted, errors, trace, np_random,
                   data, data_clean, x, X, y, beta_ols, ml>>

\* for idx, N in enumerate(sample_sizes): the next sample size, two empty lists
MonteCarloNextSize ==
    /\ nb = "Libraries" /\ ~halted /\ pc = MonteCarloCell /\ mc.phase = "outer"
    /\ mc.idx < Len(sample_sizes)
    /\ mc' = [mc EXCEPT !.phase = "inner", !.idx = @ + 1, !.sim = 0,
                        !.beta_0_estimates = 0, !.beta_1_estimates = 0]
    /\ N' = sample_sizes[mc.idx + 1]
    /\ ns' = ns \cup {"idx", "N", "beta_0_estimates", "beta_1_estimates"}
    /\ UNCHANGED <<nb, call, stata, mode, pc, halted, errors, trace, np_random,
                   data, data_clean, x, X, y, beta_ols, ml>>

\* for _ in range(n_simulations): one pass of the loop body
MonteCarloIteration ==
    /\ nb = "Libraries" /\ ~halted /\ pc = MonteCarloCell /\ mc.phase = "inner"
    /\ mc.sim < n_simulations
    /\ \E d \in 1..NDraws :
         LET df       == Samples[mc.idx][d]         \* df = generate_data(N)
             beta_hat == Estimates[mc.idx][d]       \* beta_hat = ols(df)
         IN  IF beta_hat.den = 0
             THEN /\ Raise
                  /\ mc' = [mc EXCEPT !.phase = "raised", !.df = df,
                                      !.generate_data_calls = @ + 1,
                                      !.ols_calls = @ + 1]
             ELSE /\ mc' = [mc EXCEPT !.sim = @ + 1, !.df = df, !.beta_hat = beta_hat,
                                      !.beta_0_estimates = @ + 1,
                                      !.beta_1_estimates = @ + 1,
                                      !.iterations = @ + 1,
                                      !.generate_data_calls = @ + 1,
                                      !.ols_calls = @ + 1]
                  /\ UNCHANGED <<pc, errors, halted>>
    /\ ns' = ns \cup {"_", "df", "beta_hat"}
    /\ UNCHANGED <<nb, call, stata, mode, trace, np_random, libVars, ml>>

\* results[N] = {...} and the two histograms, after the inner loop
MonteCarloStore ==
    /\ nb = "Libraries" /\ ~halted /\ pc = MonteCarloCell /\ mc.phase = "inner"
    /\ mc.sim = n_simulations
    /\ mc' = [mc EXCEPT !.phase = "outer",
                        !.results = [k \in (DOMAIN mc.results) \cup {N} |->
                                       IF k = N
                                       THEN [beta_0 |-> mc.beta_0_estimates,
                                             beta_1 |-> mc.beta_1_estimates]
                                       ELSE mc.results[k]]]
    /\ UNCHANGED <<kernelVars, call, stata, libVars, ml>>

\* plt.tight_layout(); plt.show(): the cell completes
MonteCarloEnd ==
    /\ nb = "Libraries" /\ ~halted /\ pc = MonteCarloCell /\ mc.phase = "outer"
    /\ mc.idx = Len(sample_sizes)
    /\ mc' = [mc EXCEPT !.phase = "done"]
    /\ Complete(Cells[pc].stage, Cells[pc].binds)
    /\ UNCHANGED <<nb, call, stata, mode, np_random, libVars, ml>>

KielmcColumns == selected_features \o <<"lprice">>

\* data = pd.read_stata(url)
LoadKielmc ==
    /\ nb = "ML" /\ ~halted /\ pc = LoadKielmcCell
    /\ IF Outcome(Cells[pc], ns) = "ok"
       THEN /\ Complete(Cells[pc].stage, Cells[pc].binds)
            /\ ml' = [ml EXCEPT !.data = [index |-> RangeIndex(ml.kielmc),
                                          columns |-> KielmcColumns]]
       ELSE /\ Raise
            /\ UNCHANGED <<ns, trace, ml>>
    /\ UNCHANGED <<nb, call, stata, mode, np_random, libVars, mc>>

\* X = data[selected_features]; y = data['lprice']
SelectFeatures ==
    /\ nb = "ML" /\ ~halted /\ pc = SelectCell
    /\ IF Outcome(Cells[pc], ns) = "ok"
       THEN /\ Complete(Cells[pc].stage, Cells[pc].binds)
            /\ ml' = [ml EXCEPT !.X = [index |-> ml.data.index, columns |-> selected_features],
                                !.y = [index |-> ml.data.index, columns |-> <<"lprice">>]]
       ELSE /\ Raise
            /\ UNCHANGED <<ns, trace, ml>>
    /\ UNCHANGED <<nb, call, stata, mode, np_random, libVars, mc>>

\* X_train, X_test, y_train, y_test = train_test_split(X, y, test_size=0.2, random_state=123)
SplitData ==
    /\ nb = "ML" /\ ~halted /\ pc = SplitCell
    /\ IF Outcome(Cells[pc], ns) = "ok"
       THEN /\ Complete(Cells[pc].stage, Cells[pc].binds)
            /\ LET s == train_test_split(ml.X, ml.y, np_random)
               IN  ml' = [ml EXCEPT !.split = s,
                                    !.first_split = IF ml.runs = 1 THEN s ELSE @]
       ELSE /\ Raise
            /\ UNCHANGED <<ns, trace, ml>>
    /\ UNCHANGED <<nb, call, stata, mode, np_random, libVars, mc>>

\* pipeline_lasso = Pipeline(... Lasso()); pipeline_rf = Pipeline(... RandomForestRegressor())
MakePipelines ==
    /\ nb = "ML" /\ ~halted /\ pc = PipelineCell
    /\ IF Outcome(Cells[pc], ns) = "ok"
       THEN /\ Complete(Cells[pc].stage, Cells[pc].binds)
            /\ ml' = [ml EXCEPT !.pipeline_lasso = NewPipeline(DefaultAlpha),
                                !.pipeline_rf = NewPipeline(DefaultMaxDepth)]
       ELSE /\ Raise
            /\ UNCHANGED <<ns, trace, ml>>
    /\ UNCHANGED <<nb, call, stata, mode, np_random, libVars, mc>>

\* grid_search_lasso.fit(X, y); grid_search_rf.fit(X, y); best_params_... = ....best_params_
\* The searches work on clones: the two pipelines themselves are left alone.
SearchGrids ==
    /\ nb = "ML" /\ ~halted /\ pc = SearchCell
    /\ IF Outcome(Cells[pc], ns) = "ok"
       THEN /\ Complete(Cells[pc].stage, Cells[pc].binds)
            /\ \E bl \in 1..NLearners, br \in 1..NLearners :
                 LET gl == GridSearchCV_fit(ml.X, param_grid_lasso, bl)
                     gr == GridSearchCV_fit(ml.X, param_grid_rf, br)
                 IN  ml' = [ml EXCEPT
                        !.grid_search_lasso = gl,
                        !.grid_search_rf = gr,
                        !.best_params_lasso = gl.best_params,
                        !.best_params_rf = gr.best_params,
                        !.fits = @ \cup {[by |-> "grid_search_lasso", rows |-> Range(ml.X.index)],
                                         [by |-> "grid_search_rf", rows |-> Range(ml.X.index)]},
                        !.log = @ \o <<"grid_search_lasso.fit", "grid_search_rf.fit">>]
       ELSE /\ Raise
            /\ UNCHANGED <<ns, trace, ml>>
    /\ UNCHANGED <<nb, call, stata, mode, np_random, libVars, mc>>

\* set_params that leaves the pipeline as it was
set_params_ignored(pipeline, value) == pipeline

\* pipeline.set_params(regressor__...=best_params[...])
set_params(pipeline, value) == [pipeline EXCEPT !.param = value]

SetBestParams ==
    /\ nb = "ML" /\ ~halted /\ pc = SetParamsCell
    /\ IF Outcome(Cells[pc], ns) = "ok"
       THEN /\ Complete(Cells[pc].stage, Cells[pc].binds)
            /\ ml' = [ml EXCEPT
                        !.pipeline_lasso = set_params(@, ml.best_params_lasso),
                        !.pipeline_rf = set_params(@, ml.best_params_rf),
                        !.log = @ \o <<"pipeline_lasso.set_params", "pipeline_rf.set_params">>]
       ELSE /\ Raise
            /\ UNCHANGED <<ns, trace, ml>>
    /\ UNCHANGED <<nb, call, stata, mode, np_random, libVars, mc>>

\* pipeline.fit(X_train, y_train): fits with the hyperparameter the pipeline has now
fit(pipeline, Xf) ==
    [pipeline EXCEPT !.fitted = TRUE, !.fit_param = pipeline.param, !.fit_rows = Xf.index]

FitPipelines ==
    /\ nb = "ML" /\ ~halted /\ pc = FitCell
    /\ IF Outcome(Cells[pc], ns) = "ok"
       THEN /\ Complete(Cells[pc].stage, Cells[pc].binds)
            /\ ml' = [ml EXCEPT
                        !.pipeline_lasso = fit(@, ml.split.X_train),
                        !.pipeline_rf = fit(@, ml.split.X_train),
                        !.fits = @ \cup {[by |-> "pipeline_lasso", rows |-> Range(ml.split.X_train.index)],
                                         [by |-> "pipeline_rf", rows |-> Range(ml.split.X_train.index)]},
                        !.log = @ \o <<"pipeline_lasso.fit", "pipeline_rf.fit">>]
       ELSE /\ Raise
            /\ UNCHANGED <<ns, trace, ml>>
    /\ UNCHANGED <<nb, call, stata, mode, np_random, libVars, mc>>

\* pipeline.predict(X): the call, with the state of the pipeline that answers it
predict(name, pipeline, Xf, target) ==
    [by |-> name, param |-> pipeline.param, fit_param |-> pipeline.fit_param,
     fit_rows |-> pipeline.fit_rows, rows |-> Xf.index, target |-> target.index]

\* the evaluation cell: four predictions and their mean squared errors
ComparePipelines ==
    /\ nb = "ML" /\ ~halted /\ pc = CompareCell
    /\ IF Outcome(Cells[pc], ns) = "ok"
       THEN /\ Complete(Cells[pc].stage, Cells[pc].binds)
            /\ ml' = [ml EXCEPT
                        !.predictions =
                            << predict("pipeline_lasso", ml.pipeline_lasso, ml.split.X_train, ml.split.y_train),
                               predict("pipeline_lasso", ml.pipeline_lasso, ml.split.X_test, ml.split.y_test),
                               predict("pipeline_rf", ml.pipeline_rf, ml.split.X_train, ml.split.y_train),
                               predict("pipeline_rf", ml.pipeline_rf, ml.split.X_test, ml.split.y_test) >>,
                        !.log = @ \o <<"pipeline_lasso.predict", "pipeline_rf.predict">>]
       ELSE /\ Raise
            /\ UNCHANGED <<ns, trace, ml>>
    /\ UNCHANGED <<nb, call, stata, mode, np_random, libVars, mc>>

\* The notebook is run again from a fresh kernel: an empty namespace, the
\* global generator seeded anew, the same file behind the URL.
RestartKernel ==
    /\ nb = "ML" /\ pc = Len(MLCells) + 1 /\ ml.runs < MaxRuns
    /\ pc' = 1 /\ halted' = FALSE /\ errors' = {} /\ ns' = {} /\ trace' = <<>>
    /\ np_random' \in 0..MaxSeed
    /\ ml' = FreshML(ml.kielmc, ml.runs + 1, ml.first_split, ml.first_np_random)
    /\ UNCHANGED <<nb, call, stata, mode, libVars, mc>>

-----------------------------------------------------------------------------
(* Specifications *)

InitKernel ==
    /\ mode \in {"run_all", "step"}
    /\ pc = 1 /\ halted = FALSE /\ errors = {} /\ ns = {} /\ trace = <<>>
    /\ np_random \in 0..MaxSeed

InitLibValues ==
    /\ data = <<>> /\ data_clean = <<>> /\ x = <<>> /\ X = <<>> /\ y = <<>> /\ N = 0
    /\ beta_ols = NoRational
    /\ mc = MCIdle
    /\ call = NoCall /\ stata = NoStata

\* the Libraries notebook, from a fresh kernel
InitLib ==
    /\ nb = "Libraries"
    /\ InitKernel
    /\ InitLibValues
    /\ ml = FreshML(0, 1, NoSplit, 0)

NextLib ==
    \/ RunCell
    \/ LoadMroz
    \/ WageCell
    \/ MonteCarloBegin
    \/ MonteCarloNextSize
    \/ MonteCarloIteration
    \/ MonteCarloStore
    \/ MonteCarloEnd

SpecLib == InitLib /\ [][NextLib]_vars

\* the ML notebook, from a fresh kernel, run up to MaxRuns times
InitML ==
    /\ nb = "ML"
    /\ InitKernel
    /\ InitLibValues
    /\ \E n \in n_splits..MaxRows : ml = FreshML(n, 1, NoSplit, np_random)

NextML ==
    \/ RunCell
    \/ LoadKielmc
    \/ SelectFeatures
    \/ SplitData
    \/ MakePipelines
    \/ SearchGrids
    \/ SetBestParams
    \/ FitPipelines
    \/ ComparePipelines
    \/ RestartKernel

SpecML == InitML /\ [][NextML]_vars

\* The wage-equation cell alone, on every data file of the family: the kernel
\* as a cell-by-cell run of the Libraries notebook leaves it before that cell.
\* In such a run every cell that parses completes: the names bound and the
\* cells that raised before cell k
NamesBefore(k) ==
    UNION {LibCells[j].binds : j \in {i \in 1..(k - 1) : LibCells[i].parses}}

ErrorsBefore(k) == {j \in 1..(k - 1) : ~LibCells[j].parses}

InitWage ==
    /\ nb = "Libraries" /\ mode = "step" /\ pc = OLSCell /\ halted = FALSE
    /\ errors = ErrorsBefore(OLSCell) /\ ns = NamesBefore(OLSCell)
    /\ trace = <<"import", "numpy", "load", "index", "newvar">>
    /\ np_random \in 0..MaxSeed
    /\ data \in MrozFiles
    /\ data_clean = <<>> /\ x = <<1, 2, 3>> /\ y = <<4, 5, 6>>
    /\ X = << <<1, 2, 3>>, <<4, 5, 6>> >> /\ N = 0
    /\ beta_ols = NoRational
    /\ mc = MCIdle
    /\ ml = FreshML(0, 1, NoSplit, 0)
    /\ call = NoCall /\ stata = NoStata

NextWage == WageCell

SpecWage == InitWage /\ [][NextWage]_vars

\* The kernel as a cell-by-cell run of the Libraries notebook leaves it before
\* the Monte Carlo cell
InitMonteCarlo ==
    /\ nb = "Libraries" /\ mode = "step" /\ pc = MonteCarloCell /\ halted = FALSE
    /\ errors = ErrorsBefore(MonteCarloCell) /\ ns = NamesBefore(MonteCarloCell)
    /\ trace = <<"import", "numpy", "load", "index", "newvar", "ols", "plot",
                 "montecarlo">>
    /\ np_random = RandomState(42)
    /\ data = MrozFile
    /\ data_clean = query_dropna(MrozFile)
    /\ x = NotModelled /\ y = NotModelled
    /\ X = WageX(query_dropna(MrozFile)) /\ N = 50
    /\ beta_ols = WageOLS(WageX(query_dropna(MrozFile)), WageY(query_dropna(MrozFile)))
    /\ mc = MCIdle
    /\ ml = FreshML(0, 1, NoSplit, 0)
    /\ call = NoCall /\ stata = NoStata

\* Both hand-written estimators: the wage cell on every data file of the
\* family, and the Monte Carlo cell
InitOLS == InitWage \/ InitMonteCarlo

NextOLS ==
    \/ WageCell
    \/ MonteCarloBegin
    \/ MonteCarloNextSize
    \/ MonteCarloIteration
    \/ MonteCarloStore
    \/ MonteCarloEnd

SpecOLS == InitOLS /\ [][NextOLS]_vars

\* The kernel keeps executing the Monte Carlo cell once it has started it
FairMonteCarlo ==
    WF_vars(MonteCarloNextSize \/ MonteCarloIteration \/ MonteCarloStore
            \/ MonteCarloEnd)

SpecLibFair == SpecLib /\ FairMonteCarlo

------------------------------------------------------------------------------
\* The Monte Carlo loop

MonteCarloRunning == mc.phase \in {"outer", "inner"}

MonteCarloTotal == Len(sample_sizes) * n_simulations

\* The sample sizes whose inner loop has been completed and stored
StoredSizes ==
    {sample_sizes[k] : k \in {j \in 1..Len(sample_sizes) :
                                 \/ j < mc.idx
                                 \/ j = mc.idx /\ mc.phase \in {"outer", "done"}}}

MonteCarloCounts ==
    /\ mc.phase # "raised"
    /\ mc.iterations <= MonteCarloTotal
    /\ mc.generate_data_calls = mc.iterations
    /\ mc.ols_calls = mc.iterations
    /\ mc.phase = "inner" =>
          /\ mc.iterations = (mc.idx - 1) * n_simulations + mc.sim
          /\ mc.beta_0_estimates = mc.sim /\ mc.beta_1_estimates = mc.sim
          /\ N = sample_sizes[mc.idx]
    /\ mc.iterations > 0 =>
          \E k \in 1..Len(sample_sizes), d \in 1..NDraws :
             /\ mc.sim > 0 => k = mc.idx
             /\ mc.df = Samples[k][d] /\ Len(mc.df.X) = sample_sizes[k]
             /\ mc.beta_hat = Estimates[k][d]
    /\ MonteCarloRunning \/ mc.phase = "done" =>
          /\ DOMAIN mc.results = StoredSizes
          /\ \A n \in DOMAIN mc.results :
                mc.results[n] = [beta_0 |-> n_simulations, beta_1 |-> n_simulations]
    /\ mc.phase = "done" =>
          /\ mc.iterations = MonteCarloTotal
          /\ DOMAIN mc.results = {5, 30, 100, 500}

\* C1: the Monte Carlo cell, once started, ends, after exactly
\* len(sample_sizes) x n_simulations = 4000 passes of the inner loop, each with
\* one generate_data(N) call and one ols call on that sample; when it ends,
\* results has the keys 5, 30, 100 and 500, each with 1000 beta_0 and 1000
\* beta_1 estimates.
C1_FixedIterationLoop ==
    /\ [](MonteCarloCounts)
    /\ MonteCarloRunning ~> (mc.phase = "done")

C1_LoopEnded ==
    /\ mc.phase = "done" /\ mc.iterations = 4000
    /\ pc = MonteCarloCell + 1
    /\ \A n \in {5, 30, 100, 500} : mc.results[n].beta_1 = 1000

------------------------------------------------------------------------------
\* Top-to-bottom runs

\* C2: in a run of a notebook from an empty namespace, in document order,
\* every code cell runs to completion: none raises, whether on its syntax or
\* on a name that no earlier cell has bound, and the run is never cut short.
C2_EveryCellCompletes == errors = {} /\ ~halted

\* Either notebook, from a fresh kernel
SpecNotebooks == (InitLib \/ InitML) /\ [][NextLib \/ NextML]_vars

------------------------------------------------------------------------------
\* The order of the tutorial's stages

\* the place of stage s in the trace, 0 if no cell of it has completed
RECURSIVE PlaceFrom(_, _)
PlaceFrom(s, i) ==
    IF i > Len(trace) THEN 0
    ELSE IF trace[i] = s THEN i
    ELSE PlaceFrom(s, i + 1)

Place(s) == PlaceFrom(s, 1)

Before(s, t) == Place(t) > 0 => (Place(s) > 0 /\ Place(s) < Place(t))

\* C3 as stated: import, then load, then indexing and filtering, then
\* plotting, and only after the plotting the OLS estimate by matrix inversion;
\* the model comparison and the Ridge exercise last.
C3_PlottingBeforeOLS ==
    /\ Before("import", "load")
    /\ Before("load", "index")
    /\ Before("index", "plot")
    /\ Before("plot", "ols")
    /\ Before("compare", "ridge")

LibStages == <<"import", "numpy", "load", "index", "newvar", "ols", "plot",
               "montecarlo">>

MLStages == <<"import", "load", "select", "split", "preprocess", "pipelines",
              "grid", "search", "set_params", "fit", "compare", "interpret",
              "ridge">>

\* C3, amended: the stages completed so far are always the first stages of
\* the notebook's list: in the Libraries notebook import, NumPy, load,
\* indexing and filtering, new variables, the OLS estimate by matrix
\* inversion, and only then plotting, then the Monte Carlo; in the ML
\* notebook the model comparison comes after the fit, and the Ridge exercise
\* is the last stage.
C3_StagesInOrder ==
    LET stages == IF nb = "Libraries" THEN LibStages ELSE MLStages
    IN  /\ Len(trace) <= Len(stages)
        /\ trace = SubSeq(stages, 1, Len(trace))

C3_OLSThenPlot ==
    /\ nb = "Libraries"
    /\ Place("ols") > 0 /\ Place("plot") = Place("ols") + 1
    /\ pc > 38

------------------------------------------------------------------------------
\* The test set

TestRows == Range(ml.split.X_test.index)

Evaluated == ml.predictions # <<>>

\* C4: when the models predict on X_test for the evaluation, no row of the
\* test set has been passed to any fit that determines the evaluated
\* pipelines or their hyperparameters, the grid searches' fits included.
C4_TestRowsNeverFitted ==
    Evaluated => \A f \in ml.fits : f.rows \cap TestRows = {}

SplitDone == ml.split # NoSplit

\* the rows of a frame, without order
Rows(frame) == Range(frame.index)

\* C5: train_test_split(X, y, test_size=0.2, random_state=123) leaves train
\* and test sets that share no row and together are exactly the rows of the
\* data; the test set has 20% of the rows, rounded up to a whole row; X and y
\* are split on the same rows in the same order, and keep their columns.
C5_SplitPartitionsRows ==
    SplitDone =>
        LET s == ml.split
            n == Len(ml.X.index)
        IN  /\ Rows(s.X_train) \cap Rows(s.X_test) = {}
            /\ Rows(s.X_train) \cup Rows(s.X_test) = Rows(ml.X)
            /\ Len(s.X_train.index) + Len(s.X_test.index) = n
            /\ Cardinality(Rows(s.X_test)) = Len(s.X_test.index)
            /\ 100 * Len(s.X_test.index) >= test_size_percent * n
            /\ 100 * (Len(s.X_test.index) - 1) < test_size_percent * n
            /\ s.y_train.index = s.X_train.index
            /\ s.y_test.index = s.X_test.index
            /\ s.X_train.columns = ml.X.columns /\ s.X_test.columns = ml.X.columns
            /\ s.y_train.columns = ml.y.columns /\ s.y_test.columns = ml.y.columns

\* a split of a number of rows that 20% does not divide evenly
C5_SplitRoundedUp ==
    /\ SplitDone
    /\ Len(ml.X.index) = 11 /\ Len(ml.split.X_test.index) = 3
    /\ ml.split.X_test.index # <<0, 1, 2>>

\* C6: every run of the split cell on the same data gives the split the
\* first run gave, whatever state the global generator is in.
C6_SameSplitEveryRun == SplitDone => ml.split = ml.first_split

\* a later run, from a kernel whose global generator started elsewhere
C6_SplitAgain ==
    /\ SplitDone /\ ml.runs > 1
    /\ np_random # ml.first_np_random

SearchDone == ml.grid_search_lasso # NoSearch

CallOrder ==
    <<"grid_search_lasso.fit", "grid_search_rf.fit",
      "pipeline_lasso.set_params", "pipeline_rf.set_params",
      "pipeline_lasso.fit", "pipeline_rf.fit",
      "pipeline_lasso.predict", "pipeline_rf.predict">>

BestParamsOf(name) ==
    IF name = "pipeline_lasso" THEN ml.best_params_lasso ELSE ml.best_params_rf

\* C7: set_params with the searches' best alpha and max_depth comes after
\* both grid searches and before the two pipelines are fitted on the
\* training set, and every predict call is answered by a pipeline whose
\* hyperparameter is the best one and that was fitted with it, on X_train.
C7_RetrainedWithBestParams ==
    /\ Len(ml.log) <= Len(CallOrder)
    /\ ml.log = SubSeq(CallOrder, 1, Len(ml.log))
    /\ \A i \in DOMAIN ml.predictions :
          LET p == ml.predictions[i]
          IN  /\ p.param = BestParamsOf(p.by)
              /\ p.fit_param = BestParamsOf(p.by)
              /\ p.fit_rows = ml.split.X_train.index

\* an evaluation where neither best value is the regressor's default
C7_EvaluatedBestParams ==
    /\ Evaluated
    /\ ml.best_params_lasso # DefaultAlpha
    /\ ml.best_params_rf # DefaultMaxDepth

\* n_splits times the mean squared error of candidate c over the folds
TotalMSE(search, c) ==
    SumTo([k \in 1..n_splits |-> 0 - search.cv_results[c][k].score], n_splits)

CrossValidated(search, grid) ==
    /\ Len(search.cv_results) = Len(grid)
    /\ \A c \in 1..Len(grid) :
          /\ Len(search.cv_results[c]) = 5
          /\ \A k \in 1..5 :
                LET f == search.cv_results[c][k]
                IN  /\ f.test # {} /\ f.train # {}
                    /\ f.test \cap f.train = {}
                    /\ f.test \cup f.train = Rows(ml.X)
          /\ \A k, j \in 1..5 :
                k # j => search.cv_results[c][k].test
                           \cap search.cv_results[c][j].test = {}
          /\ UNION {search.cv_results[c][k].test : k \in 1..5} = Rows(ml.X)
    /\ \E c \in 1..Len(grid) :
          /\ search.best_params = grid[c]
          /\ \A o \in 1..Len(grid) : TotalMSE(search, c) <= TotalMSE(search, o)

\* C8: each grid search cross-validates every value of its grid (5 alphas,
\* 4 max_depth values) on 5 folds that partition the rows, and its
\* best_params_ is a grid value of the lowest mean squared error over the
\* folds.
C8_BestOfGrid ==
    SearchDone =>
        /\ Len(ml.grid_search_lasso.cv_results) = 5
        /\ Len(ml.grid_search_rf.cv_results) = 4
        /\ CrossValidated(ml.grid_search_lasso, param_grid_lasso)
        /\ CrossValidated(ml.grid_search_rf, param_grid_rf)
        /\ ml.best_params_lasso = ml.grid_search_lasso.best_params
        /\ ml.best_params_rf = ml.grid_search_rf.best_params

\* searches whose winner is not the first value and beats another strictly
C8_SearchWithWinner ==
    /\ SearchDone
    /\ ml.grid_search_lasso.best_index > 1
    /\ ml.grid_search_rf.best_index > 1
    /\ \E o \in 1..5 : TotalMSE(ml.grid_search_lasso, o)
                          > TotalMSE(ml.grid_search_lasso, ml.grid_search_lasso.best_index)
    /\ \E o \in 1..4 : TotalMSE(ml.grid_search_rf, o)
                          > TotalMSE(ml.grid_search_rf, ml.grid_search_rf.best_index)

------------------------------------------------------------------------------
\* The two estimators

\* the wage cell has just run (to its end, or into LinAlgError)
WageCellRan == nb = "Libraries" /\ pc = OLSCell + 1

WageCellDone == WageCellRan /\ OLSCell \notin errors

\* b, a vector of fractions num[j] / den, solves X'X b = X'y
NormalEquations(Xm, yv, b) ==
    LET Xt  == Transpose(Xm)
        XtX == MatMul(Xt, Xm)
    IN  /\ b.den # 0
        /\ Len(b.num) = NCols(Xm)
        /\ \A j \in 1..NCols(Xm) :
              Dot(XtX[j], b.num) = b.den * Dot(Xt[j], yv)

\* the matrix whose rows are 1 and the regressor
WithIntercept(xs) == Fixed([i \in 1..Len(xs) |-> <<1, xs[i]>>])

\* C9: the wage cell's beta_ols and ols(df)'s result solve the normal
\* equations X'X b = X'y for the X with the column of ones first: beta_ols
\* has 4 entries, one per column of X, ols(df) returns 2, and the first entry
\* belongs to the column of ones (the intercept), the second of ols(df) to X.
C9_NormalEquationsHold ==
    /\ WageCellDone =>
          /\ NCols(X) = 4 /\ Len(beta_ols.num) = 4
          /\ \A i \in 1..Len(X) : X[i][1] = 1
          /\ NormalEquations(X, y, beta_ols)
    /\ mc.iterations > 0 =>
          /\ Len(mc.beta_hat.num) = 2
          /\ NormalEquations(WithIntercept(mc.df.X), mc.df.y, mc.beta_hat)

\* an estimate on a sample of 500 whose intercept and slope differ, after the
\* wage cell's estimate
C9_EstimateOnLargestSample ==
    /\ mc.iterations > 0 /\ Len(mc.df.X) = 500
    /\ mc.beta_hat.num[1] # mc.beta_hat.num[2]
    /\ Len(beta_ols.num) = 4 /\ beta_ols.den # 0

\* C10: the wage cell's y is the logarithm of the wage (the file's lwage
\* column) and its X has the rows (1, educ, exper, expersq), both taken from
\* the rows of data_clean, in the same order.
C10_LogWageOnRegressors ==
    WageCellRan =>
        /\ Len(X) = Len(data_clean) /\ Len(y) = Len(data_clean)
        /\ \A i \in 1..Len(data_clean) :
              /\ X[i] = <<1, data_clean[i].educ, data_clean[i].exper,
                          data_clean[i].expersq>>
              /\ y[i] = data_clean[i].lwage

\* ======================================================================
\* Functions of the notebooks called on their own
\* ======================================================================

\* longest array and largest value handed to mean_squared_error
MaxLen == 2
MaxVal == 1

\* a NumPy array: its values, addressed by position
ndarray(values) == [kind |-> "ndarray", values |-> values]
\* a pandas Series: values carried with the labels of its index
Series(index, values) == [kind |-> "Series", index |-> index, values |-> values]

\* a - b with both operands taken by position: array with array, or a
\* Series with an array (the result takes the index of the Series)
SubByPosition(a, b) ==
    [i \in 1..Len(a.values) |-> [isna |-> FALSE, v |-> a.values[i] - b.values[i]]]

\* Series - Series: the operands are aligned on the union of their index
\* labels (an index has no duplicates); a label found in one operand only
\* gives NaN
SubByLabel(a, b) ==
    LET la == Range(a.index)
        lb == Range(b.index)
        AtLabel(s, l) == s.values[CHOOSE i \in 1..Len(s.index) : s.index[i] = l]
    IN  [l \in la \cup lb |->
            IF l \in la /\ l \in lb
            THEN [isna |-> FALSE, v |-> AtLabel(a, l) - AtLabel(b, l)]
            ELSE [isna |-> TRUE, v |-> 0]]

\* y_true - y_pred as pandas and NumPy compute it, as a function from the
\* positions (or the labels) of the result to its values
Sub(a, b) ==
    IF a.kind = "Series" /\ b.kind = "Series"
    THEN SubByLabel(a, b)
    ELSE SubByPosition(a, b)

\* (...)**2, value by value; NaN stays NaN
Square(d) == [k \in DOMAIN d |-> [isna |-> d[k].isna, v |-> d[k].v * d[k].v]]

RECURSIVE SumOver(_, _)
SumOver(f, S) ==
    IF S = {} THEN 0
    ELSE LET k == CHOOSE e \in S : TRUE IN f[k].v + SumOver(f, S \ {k})

\* np.mean: of an array the sum over its size; of a Series, Series.mean,
\* which leaves NaN out and is NaN when nothing is left
mean(d) ==
    LET valid == {k \in DOMAIN d : ~d[k].isna}
    IN  IF valid = {} THEN [nan |-> TRUE, num |-> 0, den |-> 1]
        ELSE [nan |-> FALSE, num |-> SumOver(d, valid), den |-> Cardinality(valid)]

mean_squared_error(y_true, y_pred) == mean(Square(Sub(y_true, y_pred)))

\* the arrays and Series of one length handed to the function
Values(n) == [1..n -> 0..MaxVal]
Indexes(n) == {[i \in 1..n |-> i - 1], [i \in 1..n |-> n - i], [i \in 1..n |-> n + i - 1]}
Arrays(n) ==
    {ndarray(v) : v \in Values(n)}
        \cup {Series(ix, v) : ix \in Indexes(n), v \in Values(n)}

\* one call mean_squared_error(y_true, y_pred) on inputs of equal length
CallMeanSquaredError ==
    /\ call = NoCall
    /\ \E n \in 1..MaxLen : \E y_true \in Arrays(n), y_pred \in Arrays(n) :
          call' = [fn |-> "mean_squared_error",
                   y_true |-> y_true, y_pred |-> y_pred,
                   result |-> mean_squared_error(y_true, y_pred)]
    /\ UNCHANGED <<nb, stata, mode, pc, halted, errors, ns, trace, np_random,
                   data, data_clean, x, X, y, N, beta_ols, mc, ml>>

\* largest N handed to generate_data explicitly
MaxN == 12
\* def generate_data(N=1000): the sample size of a call without an argument
DefaultN == 1000

\* the N a call binds: its argument, or the default of the signature
BoundN(args) == IF args = << >> THEN DefaultN ELSE args[1]

\* one call generate_data(N) or generate_data(); the record keeps the
\* function's local draws X and u next to the frame it returns
CallGenerateData ==
    /\ call = NoCall
    /\ \E args \in {<< >>} \cup {<<n>> : n \in 1..MaxN} : \E d \in 1..NDraws :
          call' = [fn |-> "generate_data", args |-> args,
                   X |-> NormalX(BoundN(args), d),
                   u |-> NormalU(BoundN(args), d),
                   result |-> generate_data(BoundN(args), d)]
    /\ UNCHANGED <<nb, stata, mode, pc, halted, errors, ns, trace, np_random,
                   data, data_clean, x, X, y, N, beta_ols, mc, ml>>

\* a.resize(shape): the array itself takes the new shape
ndarray_resize(a, shape) ==
    [result |-> [shape |-> shape, data |-> a.data],
     a      |-> [shape |-> shape, data |-> a.data]]

\* np.reshape(a, shape), for a shape of a's size: the array returned, with
\* a's values in the same (row-major) order under the new shape, and the
\* array a as the call leaves it
np_reshape(a, shape) ==
    [result |-> [shape |-> shape, data |-> a.data],
     a      |-> a]

\* x = np.linspace(start, start + n - 1, n) followed by np.reshape(x, (r, c))
\* with r * c = n, as in np.reshape(x, (5, 2)) on np.linspace(0, 9, 10);
\* the record keeps the argument, the array returned and x after the call
CallReshape ==
    /\ call = NoCall
    /\ \E n \in 1..MaxN, start \in 0..MaxVal : \E r \in 1..n, c \in 1..n :
          LET linspace == [shape |-> <<n>>, data |-> [i \in 1..n |-> start + i - 1]]
              done     == np_reshape(linspace, <<r, c>>)
          IN  /\ r * c = n
              /\ call' = [fn |-> "np.reshape", arg |-> linspace,
                          result |-> done.result, x |-> done.a]
    /\ UNCHANGED <<nb, stata, mode, pc, halted, errors, ns, trace, np_random,
                   data, data_clean, x, X, y, N, beta_ols, mc, ml>>

\* a kernel in which the functions are defined and are called one at a time
InitFunctions ==
    /\ nb \in {"Libraries", "ML"}
    /\ InitKernel
    /\ InitLibValues
    /\ ml = FreshML(0, 1, NoSplit, 0)

NextFunctions == CallMeanSquaredError \/ CallGenerateData \/ CallReshape

SpecFunctions == InitFunctions /\ [][NextFunctions]_vars

\* ----------------------------------------------------------------------
\* C11  mean_squared_error(y_true, y_pred) returns the mean of the squared
\* differences (1/n) * sum (y_true[i] - y_pred[i])^2 with the values paired
\* by position, for every pair of inputs of equal length; it is never
\* negative and it is 0 exactly when the two inputs hold equal values.
\* ----------------------------------------------------------------------
MSECalled == call.fn = "mean_squared_error"

SquaredErrorByPosition(a, b) ==
    SumTo([i \in 1..Len(a.values) |->
               (a.values[i] - b.values[i]) * (a.values[i] - b.values[i])],
          Len(a.values))

C11_MeanSquaredErrorByPosition ==
    MSECalled =>
        LET n   == Len(call.y_true.values)
            sse == SquaredErrorByPosition(call.y_true, call.y_pred)
        IN  /\ ~call.result.nan
            /\ call.result.num * n = sse * call.result.den
            /\ call.result.num >= 0
            /\ (call.result.num = 0) <=> (call.y_true.values = call.y_pred.values)

\* the part of C11 the arrays satisfy: whenever one of the inputs is a NumPy
\* array, as in the four calls of the evaluation cell, the result is the
\* positional mean squared error
C11_PositionalWithAnArray ==
    (MSECalled /\ "ndarray" \in {call.y_true.kind, call.y_pred.kind}) =>
        LET n   == Len(call.y_true.values)
            sse == SquaredErrorByPosition(call.y_true, call.y_pred)
        IN  /\ ~call.result.nan
            /\ call.result.num * n = sse * call.result.den
            /\ (call.result.num = 0) <=> (call.y_true.values = call.y_pred.values)

\* two Series of equal length whose indexes hold the same labels in another
\* order, and whose values differ by position: the result is 0 all the same
C11_SeriesAlignedByLabel ==
    /\ MSECalled
    /\ call.y_true.kind = "Series" /\ call.y_pred.kind = "Series"
    /\ call.y_true.values # call.y_pred.values
    /\ ~call.result.nan /\ call.result.num = 0

\* ----------------------------------------------------------------------
\* C14  generate_data(N) returns a data frame with exactly N rows and
\* exactly the columns X and y, in which every row satisfies
\* y = 3 + 2 * X + u for the draws X and u of that call, for every N >= 1;
\* called without an argument it returns 1000 rows.
\* ----------------------------------------------------------------------
C14_GenerateDataFrame ==
    (call.fn = "generate_data") =>
        LET df == call.result
            n  == IF call.args = << >> THEN 1000 ELSE call.args[1]
        IN  /\ DOMAIN df = {"X", "y"}
            /\ Len(df.X) = n /\ Len(df.y) = n
            /\ df.X = call.X
            /\ \A i \in 1..n : df.y[i] = 3 + 2 * df.X[i] + call.u[i]

\* a call without an argument has returned its 1000 rows, with a row whose
\* error term is not zero
C14_DefaultSample ==
    /\ call.fn = "generate_data" /\ call.args = << >>
    /\ Len(call.result.y) = 1000
    /\ \E i \in 1..1000 : call.u[i] # 0

\* ----------------------------------------------------------------------
\* C15  np.reshape(x, (5, 2)) returns a new array and does not modify the
\* original: after the call x still has its 10 elements in one dimension,
\* with the same values in the same order, and the array returned holds
\* those values as a 5 x 2 matrix.
\* ----------------------------------------------------------------------
C15_ReshapeLeavesOriginal ==
    (call.fn = "np.reshape") =>
        /\ call.x = call.arg
        /\ Len(call.x.shape) = 1
        /\ call.x.shape[1] = Len(call.x.data)
        /\ Len(call.result.shape) = 2
        /\ call.result.shape[1] * call.result.shape[2] = Len(call.x.data)
        /\ call.result.data = call.x.data

\* the call of the notebook: x = np.linspace(0, 9, 10) reshaped to (5, 2)
C15_TenElementsAsFiveByTwo ==
    /\ call.fn = "np.reshape"
    /\ call.arg = [shape |-> <<10>>, data |-> <<0, 1, 2, 3, 4, 5, 6, 7, 8, 9>>]
    /\ call.result.shape = <<5, 2>>
    /\ call.x.shape = <<10>>

\* ======================================================================
\* The preprocessor of the ML notebook
\* ======================================================================

\* a frame handed to the preprocessor has 2 * Half rows, and baths takes its
\* values in 1..MaxBaths
Half == 1
MaxBaths == 2

\* a numerical pipeline that expands before it scales
numerical_pipeline_poly_first == <<"PolynomialFeatures", "StandardScaler">>

\* Pipeline([('scaler', StandardScaler()),
\*           ('poly', PolynomialFeatures(degree=2, include_bias=False))])
numerical_pipeline == <<"StandardScaler", "PolynomialFeatures">>

\* ColumnTransformer(transformers=[('num', ...), ('cat', OneHotEncoder(), ['baths'])])
preprocessor ==
    <<[name |-> "num", steps |-> numerical_pipeline,
       columns |-> <<"age", "area", "land", "dist", "rooms">>],
      [name |-> "cat", steps |-> <<"OneHotEncoder">>,
       columns |-> <<"baths">>]>>

\* X[columns]: the block of columns a transformer is given.  A feature is
\* the product of its factors (columns of X), or the dummy of one category
Select(frame, columns) ==
    [columns |-> columns, applied |-> << >>,
     features |-> [k \in 1..Len(columns) |->
                      [factors |-> <<columns[k]>>, category |-> << >>,
                       values |-> frame[columns[k]]]]]

\* StandardScaler().fit_transform: (v - mean) / std of every feature, with the
\* population variance; a constant feature is divided by 1
StandardScaler(features) ==
    [k \in 1..Len(features) |->
        LET v    == features[k].values
            n    == Len(v)
            mu   == SumTo(v, n) \div n
            var  == SumTo([i \in 1..n |-> (v[i] - mu) * (v[i] - mu)], n) \div n
            std  == IF var = 0 THEN 1 ELSE CHOOSE s \in 1..var : s * s = var
        IN  [features[k] EXCEPT !.values = [i \in 1..n |-> (v[i] - mu) \div std]]]

\* PolynomialFeatures(degree=2, include_bias=False).fit_transform: the
\* features themselves, then the products of two of them, squares included,
\* in lexicographic order
PolynomialFeatures(features) ==
    LET k       == Len(features)
        pairs   == {q \in (1..k) \X (1..k) : q[1] <= q[2]}
        rank(q) == Cardinality({r \in pairs : r[1] < q[1] \/ (r[1] = q[1] /\ r[2] < q[2])}) + 1
        pair(r) == CHOOSE q \in pairs : rank(q) = r
        n       == IF k = 0 THEN 0 ELSE Len(features[1].values)
    IN  features \o
        [r \in 1..Cardinality(pairs) |->
            LET a == features[pair(r)[1]]
                b == features[pair(r)[2]]
            IN  [factors |-> a.factors \o b.factors, category |-> << >>,
                 values |-> [i \in 1..n |-> a.values[i] * b.values[i]]]]

\* OneHotEncoder().fit_transform: for every feature one dummy per category
\* found in it, the categories in ascending order
OneHotEncoder(features) ==
    LET cells   == {q \in (1..Len(features)) \X (1..MaxBaths) :
                       q[2] \in Range(features[q[1]].values)}
        rank(q) == Cardinality({r \in cells : r[1] < q[1] \/ (r[1] = q[1] /\ r[2] < q[2])}) + 1
        cell(r) == CHOOSE q \in cells : rank(q) = r
    IN  [r \in 1..Cardinality(cells) |->
            LET f == features[cell(r)[1]]
            IN  [factors |-> f.factors, category |-> <<cell(r)[2]>>,
                 values |-> [i \in 1..Len(f.values) |->
                                IF f.values[i] = cell(r)[2] THEN 1 ELSE 0]]]

\* one step of a transformer applied to a block
Transform(step, block) ==
    [block EXCEPT
        !.applied  = Append(@, step),
        !.features = CASE step = "StandardScaler"     -> StandardScaler(@)
                       [] step = "PolynomialFeatures" -> PolynomialFeatures(@)
                       [] step = "OneHotEncoder"      -> OneHotEncoder(@)]

\* np.hstack of the transformers' outputs, in the order of the transformers;
\* remainder='drop', the default: a column given to no transformer is left out
hstack(blocks) ==
    IF blocks = << >> THEN << >>
    ELSE LET offset(k) == SumTo([j \in 1..Len(blocks) |-> Len(blocks[j].features)], k - 1)
             total     == offset(Len(blocks) + 1)
             blockOf(i) == CHOOSE k \in 1..Len(blocks) :
                               offset(k) < i /\ i <= offset(k) + Len(blocks[k].features)
         IN  [i \in 1..total |-> blocks[blockOf(i)].features[i - offset(blockOf(i))]]

\* the selected columns of kielmc: every numerical column takes two values
\* around its own mean, half of the rows each; year is 1978 or 1981
Frames ==
    LET n       == 2 * Half
        halves  == {s \in [1..n -> {-1, 1}] : SumTo(s, n) = 0}
        numeric == <<"age", "rooms", "area", "land", "dist">>
        col(c)  == CHOOSE k \in 1..Len(numeric) : numeric[k] = c
    IN  {[c \in Range(selected_features) |->
            CASE c = "year"  -> yr
              [] c = "baths" -> b
              [] OTHER       -> [i \in 1..n |->
                                    10 * col(c) + col(c) * s[i] * (IF col(c) % 2 = 0 THEN -1 ELSE 1)]] :
         s \in halves, b \in [1..n -> 1..MaxBaths], yr \in [1..n -> {1978, 1981}]}

\* preprocessor.fit_transform(X) begins with the first transformer's columns
PreprocessBegin ==
    /\ call = NoCall
    /\ \E frame \in Frames :
          call' = [fn |-> "preprocessor.fit_transform", X |-> frame,
                   t |-> 1, s |-> 1,
                   block |-> Select(frame, preprocessor[1].columns),
                   blocks |-> << >>, out |-> << >>, done |-> FALSE]
    /\ UNCHANGED <<nb, stata, mode, pc, halted, errors, ns, trace, np_random,
                   data, data_clean, x, X, y, N, beta_ols, mc, ml>>

\* the next step of the current transformer works on the output of the last
PreprocessStep ==
    /\ call.fn = "preprocessor.fit_transform" /\ ~call.done
    /\ call.t <= Len(preprocessor)
    /\ call.s <= Len(preprocessor[call.t].steps)
    /\ call' = [call EXCEPT !.block = Transform(preprocessor[call.t].steps[call.s], @),
                            !.s = @ + 1]
    /\ UNCHANGED <<nb, stata, mode, pc, halted, errors, ns, trace, np_random,
                   data, data_clean, x, X, y, N, beta_ols, mc, ml>>

\* a transformer is through its steps: its output is kept, and the next
\* transformer starts from its own columns of X
PreprocessNext ==
    /\ call.fn = "preprocessor.fit_transform" /\ ~call.done
    /\ call.t <= Len(preprocessor)
    /\ call.s > Len(preprocessor[call.t].steps)
    /\ call' = [call EXCEPT !.blocks = Append(@, call.block),
                            !.t = @ + 1, !.s = 1,
                            !.block = IF call.t < Len(preprocessor)
                                      THEN Select(call.X, preprocessor[call.t + 1].columns)
                                      ELSE Select(call.X, << >>)]
    /\ UNCHANGED <<nb, stata, mode, pc, halted, errors, ns, trace, np_random,
                   data, data_clean, x, X, y, N, beta_ols, mc, ml>>

\* all transformers are through: their outputs are stacked for the regressor
PreprocessStack ==
    /\ call.fn = "preprocessor.fit_transform" /\ ~call.done
    /\ call.t > Len(preprocessor)
    /\ call' = [call EXCEPT !.out = hstack(call.blocks), !.done = TRUE]
    /\ UNCHANGED <<nb, stata, mode, pc, halted, errors, ns, trace, np_random,
                   data, data_clean, x, X, y, N, beta_ols, mc, ml>>

\* the ML notebook's kernel, with the preprocessor built
InitPreprocess == InitFunctions /\ nb = "ML" /\ mode = "run_all" /\ np_random = 0

NextPreprocess == PreprocessBegin \/ PreprocessStep \/ PreprocessNext \/ PreprocessStack

SpecPreprocess == InitPreprocess /\ [][NextPreprocess]_vars

\* ----------------------------------------------------------------------
\* C12  The preprocessor routes the columns by type: age, area, land, dist
\* and rooms are standardised by StandardScaler and only then expanded by
\* PolynomialFeatures (degree 2, no bias column); baths goes through
\* OneHotEncoder only.  No numerical column is one-hot encoded, and baths
\* is neither scaled nor expanded.
\* ----------------------------------------------------------------------
Numerical == {"age", "area", "land", "dist", "rooms"}

\* the blocks worked on so far: the finished ones and the current one
Blocks == call.blocks \o <<call.block>>

\* the output feature that is the column c alone
Alone(c) == CHOOSE f \in Range(call.out) : f.factors = <<c>> /\ f.category = << >>

C12_ColumnsRoutedByType ==
    (call.fn = "preprocessor.fit_transform") =>
        /\ \A k \in 1..Len(Blocks) :
              LET b == Blocks[k] IN
              /\ Range(b.columns) \cap Numerical # {} =>
                    /\ Range(b.columns) = Numerical
                    /\ b.applied \in {<< >>, <<"StandardScaler">>,
                                      <<"StandardScaler", "PolynomialFeatures">>}
              /\ "baths" \in Range(b.columns) =>
                    /\ b.columns = <<"baths">>
                    /\ b.applied \in {<< >>, <<"OneHotEncoder">>}
        /\ call.done =>
              LET n == 2 * Half IN
              /\ \A k \in 1..Len(call.blocks) :
                    call.blocks[k].applied =
                        IF call.blocks[k].columns = <<"baths">>
                        THEN <<"OneHotEncoder">>
                        ELSE <<"StandardScaler", "PolynomialFeatures">>
              \* 5 columns, 15 products of two, no constant column
              /\ Cardinality({i \in 1..Len(call.out) : call.out[i].category = << >>}) = 20
              /\ \A f \in Range(call.out) :
                    /\ Range(f.factors) \subseteq Numerical \/ f.factors = <<"baths">>
                    /\ (f.category # << >>) <=> (f.factors = <<"baths">>)
                    /\ Len(f.factors) \in {1, 2}
              \* the numerical columns arrive with mean 0 and variance 1 ...
              /\ \A c \in Numerical :
                    /\ SumTo(Alone(c).values, n) = 0
                    /\ SumTo([i \in 1..n |-> Alone(c).values[i] * Alone(c).values[i]], n) = n
              \* ... and the products are products of the standardised columns
              /\ \A f \in Range(call.out) :
                    Len(f.factors) = 2 =>
                        \A i \in 1..n :
                            f.values[i] = Alone(f.factors[1]).values[i]
                                              * Alone(f.factors[2]).values[i]
              \* the dummies are those of the raw values of baths
              /\ \A f \in Range(call.out) :
                    f.category # << >> =>
                        \A i \in 1..n :
                            (f.values[i] = 1) <=> (call.X["baths"][i] = f.category[1])

\* a frame with both kinds of bathrooms has come out of the preprocessor:
\* 20 numerical features and one dummy per category of baths
C12_FrameTransformed ==
    /\ call.fn = "preprocessor.fit_transform" /\ call.done
    /\ Range(call.X["baths"]) = {1, 2}
    /\ Len(call.out) = 22

\* ----------------------------------------------------------------------
\* C13  Every column selected into X (year, age, rooms, area, land, baths,
\* dist) reaches the regressor through the preprocessor: each of them has a
\* feature in the preprocessor's output that is computed from it.
\* ----------------------------------------------------------------------
C13_EverySelectedColumnReachesRegressor ==
    (call.fn = "preprocessor.fit_transform" /\ call.done) =>
        \A c \in Range(selected_features) :
            \E f \in Range(call.out) : c \in Range(f.factors)

\* what the code does: the output is computed from the columns of the two
\* transformers, and year, which neither of them lists, is left out
C13_YearIsDropped ==
    (call.fn = "preprocessor.fit_transform" /\ call.done) =>
        UNION {Range(f.factors) : f \in Range(call.out)}
            = Range(selected_features) \ {"year"}

\* ======================================================================
\* The do-files lab4_task1.do and lab4_task2.do
\* ======================================================================

\* most observations in the data file a do-file opens
MaxObs == 3

\* the missing value "." of a prediction
Missing == [sample |-> {}, model |-> 0, row |-> 0]

\* the loops of a do-file, in order: what is held out in an iteration, the
\* variable the loop fills, and the model ($model_k) it estimates
Loops(dofile) ==
    IF dofile = "lab4_task1"
    THEN <<[kind |-> "loo",  target |-> "yhat_oos",    model |-> 1],
           [kind |-> "fold", target |-> "yhat_4f_oos", model |-> 1]>>
    ELSE <<[kind |-> "loo", target |-> "yhat_1_oos", model |-> 1],
           [kind |-> "loo", target |-> "yhat_2_oos", model |-> 2],
           [kind |-> "loo", target |-> "yhat_3_oos", model |-> 3],
           [kind |-> "loo", target |-> "yhat_4_oos", model |-> 4]>>

\* regress ... if <rows>: error 2000 (no observations) or 2001 (insufficient
\* observations) ends the do-file; otherwise the estimates e(b) are those of
\* the model on the estimation sample e(sample)
regress(rows, model) ==
    [rc |-> CASE Cardinality(rows) = 0 -> 2000
              [] Cardinality(rows) = 1 -> 2001
              [] OTHER                 -> 0,
     sample |-> rows, model |-> model]

\* predict ..., xb for one row: the fitted value of the estimates in memory
predict_xb(e, r) == [sample |-> e.sample, model |-> e.model, row |-> r]

\* gen <name> = .
gen(name, nobs) ==
    [name |-> name, values |-> [r \in 1..nobs |-> Missing],
     writes |-> [r \in 1..nobs |-> 0]]

\* a recode that applies every rule in turn to the outcome of the one before
recode_sequential(v) ==
    LET rule(w, lo, hi, new) == IF lo <= w /\ w <= hi THEN new ELSE w
    IN  rule(rule(rule(rule(v, 0, 25, 100), 25, 50, 200), 50, 75, 300), 75, 100, 400)

\* recode foldvar (0/0.25 = 1) (0.25/0.5 = 2) (0.5/0.75 = 3) (0.75/1 = 4),
\* values in hundredths: the first rule whose range holds the value applies,
\* bounds included; a value in no range is kept
recode(v) ==
    LET rules == <<<<0, 25, 100>>, <<25, 50, 200>>, <<50, 75, 300>>, <<75, 100, 400>>>>
        match == {k \in 1..Len(rules) : rules[k][1] <= v /\ v <= rules[k][2]}
    IN  IF match = {} THEN v
        ELSE rules[CHOOSE k \in match : \A j \in match : k <= j][3]

\* an iteration that holds nothing out
HeldOutNothing(st) == {}

\* the rows the current iteration predicts: if _n==`i', or if foldvar==`k'
HeldOut(st) ==
    IF Loops(st.dofile)[st.m].kind = "loo"
    THEN {st.i}
    ELSE {r \in 1..st.nobs : st.foldvar[r] = 100 * st.i}

\* the do-file up to its first loop: the data are loaded, keep drops the
\* rows that fail its condition, nobs = _N, the full-sample regressions run,
\* and the first loop's variable is generated
StataOpen ==
    /\ stata = NoStata
    /\ \E dofile \in {"lab4_task1", "lab4_task2"} :
       \E file \in UNION {[1..n -> BOOLEAN] : n \in 1..MaxObs} :
          LET nobs == Cardinality({r \in DOMAIN file : file[r]})
              full == regress(1..nobs, 1)
          IN  stata' = [dofile |-> dofile, nobs |-> nobs, rc |-> full.rc,
                        line |-> IF full.rc = 0 THEN "regress" ELSE "abort",
                        m |-> 1, i |-> 1, e |-> full,
                        yhat_i |-> << >>,
                        out |-> IF full.rc = 0
                                THEN <<gen(Loops(dofile)[1].target, nobs)>>
                                ELSE << >>,
                        u |-> << >>, foldvar |-> << >>]
    /\ UNCHANGED <<nb, call, mode, pc, halted, errors, ns, trace, np_random,
                   data, data_clean, x, X, y, N, beta_ols, mc, ml>>

\* qui reg ... if _n~=`i'   /   qui reg ... if foldvar~=`k'
StataRegress ==
    /\ stata.dofile # "none" /\ stata.line = "regress"
    /\ LET r == regress((1..stata.nobs) \ HeldOut(stata), Loops(stata.dofile)[stata.m].model)
       IN  stata' = IF r.rc = 0
                    THEN [stata EXCEPT !.e = r, !.line = "predict"]
                    ELSE [stata EXCEPT !.rc = r.rc, !.line = "abort"]
    /\ UNCHANGED <<nb, call, mode, pc, halted, errors, ns, trace, np_random,
                   data, data_clean, x, X, y, N, beta_ols, mc, ml>>

\* cap drop yhat_i ; qui predict yhat_i if _n==`i', xb
StataPredict ==
    /\ stata.dofile # "none" /\ stata.line = "predict"
    /\ stata' = [stata EXCEPT
                    !.yhat_i = [r \in 1..stata.nobs |->
                                   IF r \in HeldOut(stata)
                                   THEN predict_xb(stata.e, r) ELSE Missing],
                    !.line = "replace"]
    /\ UNCHANGED <<nb, call, mode, pc, halted, errors, ns, trace, np_random,
                   data, data_clean, x, X, y, N, beta_ols, mc, ml>>

\* qui replace <target> = yhat_i if _n==`i' ; } : the next iteration, the
\* next loop, or the end of the do-file
StataReplace ==
    /\ stata.dofile # "none" /\ stata.line = "replace"
    /\ LET loops    == Loops(stata.dofile)
           last     == IF loops[stata.m].kind = "loo" THEN stata.nobs ELSE 4
           held     == HeldOut(stata)
           replaced == [stata.out[stata.m] EXCEPT
                           !.values = [r \in 1..stata.nobs |->
                                          IF r \in held THEN stata.yhat_i[r] ELSE @[r]],
                           !.writes = [r \in 1..stata.nobs |->
                                          IF r \in held THEN @[r] + 1 ELSE @[r]]]
           out      == [stata.out EXCEPT ![stata.m] = replaced]
       IN  stata' =
              IF stata.i < last
              THEN [stata EXCEPT !.out = out, !.i = @ + 1, !.line = "regress"]
              ELSE IF stata.m = Len(loops)
              THEN [stata EXCEPT !.out = out, !.line = "end"]
              ELSE IF loops[stata.m + 1].kind = "fold"
              THEN [stata EXCEPT !.out = out, !.line = "foldvar"]
              ELSE [stata EXCEPT !.out = Append(out, gen(loops[stata.m + 1].target, stata.nobs)),
                                 !.m = @ + 1, !.i = 1, !.line = "regress"]
    /\ UNCHANGED <<nb, call, mode, pc, halted, errors, ns, trace, np_random,
                   data, data_clean, x, X, y, N, beta_ols, mc, ml>>

\* set seed 42 ; gen foldvar = runiform() ; recode foldvar ... ;
\* gen yhat_4f_oos = . : the draws, in hundredths, are any of the values
\* next to the bounds of the recode rules
GenFoldvar ==
    /\ stata.dofile # "none" /\ stata.line = "foldvar"
    /\ \E u \in [1..stata.nobs -> {25, 26, 50, 51, 75, 76}] :
          stata' = [stata EXCEPT
                       !.u = u,
                       !.foldvar = [r \in 1..stata.nobs |-> recode(u[r])],
                       !.out = Append(@, gen(Loops(stata.dofile)[stata.m + 1].target, stata.nobs)),
                       !.m = @ + 1, !.i = 1, !.line = "regress"]
    /\ UNCHANGED <<nb, call, mode, pc, halted, errors, ns, trace, np_random,
                   data, data_clean, x, X, y, N, beta_ols, mc, ml>>

\* Stata started, no do-file run yet
InitStata == InitFunctions /\ nb = "Libraries" /\ mode = "run_all" /\ np_random = 0

NextStata == StataOpen \/ StataRegress \/ StataPredict \/ StataReplace \/ GenFoldvar

SpecStata == InitStata /\ [][NextStata]_vars

\* ----------------------------------------------------------------------
\* C16  Leave-one-out loops of lab4_task1.do and lab4_task2.do: for every
\* i in 1..nobs the stored out-of-sample prediction comes from the
\* regression on all observations except i and is written into row i only;
\* a row is never written twice, and when a loop has ended every row has
\* been written exactly once.
\* ----------------------------------------------------------------------
StataRunning == stata.dofile # "none" /\ stata.line \in {"regress", "predict", "replace"}

C16_LeaveOneOut ==
    (stata.dofile # "none") =>
        \A k \in 1..Len(stata.out) :
            LET loop == Loops(stata.dofile)[k]
                v    == stata.out[k]
                rows == 1..stata.nobs
            IN  loop.kind = "loo" =>
                /\ v.name = loop.target
                /\ \A r \in rows :
                      /\ v.writes[r] <= 1
                      /\ v.writes[r] = 0 => v.values[r] = Missing
                      /\ v.writes[r] = 1 =>
                            v.values[r] = [sample |-> rows \ {r}, model |-> loop.model, row |-> r]
                \* rows 1..i-1 are written when iteration i runs
                /\ (k = stata.m /\ StataRunning) =>
                      \A r \in rows : (v.writes[r] = 1) <=> (r < stata.i)
                \* the loop has ended
                /\ (k < stata.m \/ stata.line \in {"foldvar", "end"}) =>
                      \A r \in rows : v.writes[r] = 1

\* lab4_task2.do has run to its end: its four loops have filled their variables
C16_LoopsEnded ==
    /\ stata.dofile = "lab4_task2" /\ stata.line = "end"
    /\ stata.nobs = 3 /\ Len(stata.out) = 4
    /\ stata.out[4].values[3] = [sample |-> {1, 2}, model |-> 4, row |-> 3]

\* ----------------------------------------------------------------------
\* C17  4-fold split of lab4_task1.do: after the recode every observation
\* has exactly one fold ID in {1, 2, 3, 4}, that of the quarter of (0, 1]
\* its draw fell in; for each fold k the predictions yhat_4f_oos of the
\* observations of fold k come from the regression on the other folds
\* only; after the loop every observation has a prediction.
\* ----------------------------------------------------------------------
FoldLoop == stata.dofile = "lab4_task1" /\ stata.m = 2

====
